---- MODULE Spec2Model ----
(***************************************************************************)
(* AutonomousTaskExecutor (src/FEATURES.md, lines 237-442): a priority     *)
(* queue of task ids, a set of running ids bounded by config.maxConcurrent,*)
(* a polling control loop (processQueue) and one asynchronous executeTask  *)
(* invocation per dequeued id.                                             *)
(*                                                                         *)
(* JavaScript runs each handler to its next await without interruption, so *)
(* one action is one such run: a caller's call, one wake-up of a           *)
(* processQueue loop from its 100 ms timer, one wake-up of an executeTask  *)
(* invocation from a 200 ms progress timer or from the retry-delay timer,  *)
(* or the try block of an executeTask invocation throwing.                 *)
(***************************************************************************)
EXTENDS Naturals, Integers, Sequences, FiniteSets, Bags, TLC

VARIABLES
    objs,          \* the AutonomousTask objects ever built, by id
    tasks,         \* keys of the Map this.tasks (ids whose object is in the table)
    runningTasks,  \* this.runningTasks
    taskQueue,     \* this.taskQueue
    config,        \* this.config
    limit,         \* the bounds of the run, fixed by the initial predicate
    isRunning,     \* this.isRunning
    loops,         \* processQueue invocations waiting on their 100 ms timer
    invocations,   \* executeTask invocations waiting on an await, as a bag
    executorCalls, \* how often the executor argument of createTask was called, by id
    hist,          \* per id: executeTask runs started, try blocks thrown, try blocks
                   \* finished, and the delay of the last retry timer set (0: none yet)
    events,        \* how many calls the caller made and try blocks threw so far
    cancelledQueued  \* the ids cancelTask was called on while their status was 'queued'

vars == <<objs, tasks, runningTasks, taskQueue, config, limit, isRunning, loops,
          invocations, executorCalls, hist, events, cancelledQueued>>

----------------------------------------------------------------------------
(* Bounds of the model *)

\* createTask is called at most MaxTasks times
MaxTasks == 2
\* at most MaxInFlight executeTask invocations are awaiting at once
MaxInFlight == 2
\* at most MaxLoops processQueue invocations are alive at once
MaxLoops == 1
\* executeTask is run at most MaxRuns times for one id
MaxRuns == 2
\* at most MaxEvents events in all, an event being a call of createTask, stop,
\* pauseTask, resumeTask, cancelTask or clearCompleted, or a try block that throws
\* (calls of start, and timers, are not counted)
MaxEvents == 4

\* the bounds of Spec and SpecSimulated
BaseLimit ==
    [tasks |-> MaxTasks, inFlight |-> MaxInFlight, loops |-> MaxLoops, runs |-> MaxRuns,
     events |-> MaxEvents]
\* the bounds of SpecWide: one more of each
WideLimit ==
    [tasks |-> MaxTasks + 1, inFlight |-> MaxInFlight + 1, loops |-> MaxLoops + 1,
     runs |-> MaxRuns + 1, events |-> MaxEvents + 1]
\* the bounds of SpecPriority: one more job
PriorityLimit == [BaseLimit EXCEPT !.tasks = MaxTasks + 1]
\* the bounds of SpecDeferral: one more event, one invocation at a time, one run a job
DeferralLimit ==
    [BaseLimit EXCEPT !.events = MaxEvents + 1, !.inFlight = MaxInFlight - 1,
                      !.runs = MaxRuns - 1]
\* the bounds of SpecOneJob: one job less, two more events
OneJobLimit == [BaseLimit EXCEPT !.tasks = MaxTasks - 1, !.events = MaxEvents + 2]

----------------------------------------------------------------------------
(* Program constants *)

DefaultMaxConcurrent == 3
DefaultRetryDelay == 5000
DefaultMaxRetries == 3
ProgressStep == 10
ProgressLimit == 100

priorityOrder == [critical |-> 0, high |-> 1, medium |-> 2, low |-> 3]

Priorities == {"critical", "high", "medium", "low"}

\* what a caller may pass; 0 and "undefined" are the falsy values of a || b
Ids == 1 .. MaxTasks + 1
OptionInputs ==
    {[priority |-> "undefined", dependencies |-> {}, maxRetries |-> 0],
     [priority |-> "critical", dependencies |-> {1}, maxRetries |-> 1],
     [priority |-> "low", dependencies |-> {2}, maxRetries |-> 2]}
ConfigInputs ==
    {[maxConcurrent |-> 0, retryDelay |-> 0, defaultMaxRetries |-> 0],
     [maxConcurrent |-> 1, retryDelay |-> 0, defaultMaxRetries |-> 1],
     [maxConcurrent |-> 2, retryDelay |-> 100, defaultMaxRetries |-> 1]}

\* a || b of JavaScript, on a number and on an optional string
OrNumber(a, b) == IF a = 0 THEN b ELSE a
OrString(a, b) == IF a = "undefined" THEN b ELSE a

----------------------------------------------------------------------------
(* Helpers on the state *)

SetStatus(o, id, s) == [o EXCEPT ![id].status = s]

\* Array.prototype.indexOf: the first index holding x, 0 when there is none
IndexOf(q, x) ==
    IF \E i \in 1 .. Len(q) : q[i] = x
    THEN CHOOSE i \in 1 .. Len(q) : q[i] = x /\ \A j \in 1 .. i - 1 : q[j] # x
    ELSE 0

\* Array.prototype.splice(index, 1) and splice(index, 0, x), 1-based
RemoveAt(q, i) == SubSeq(q, 1, i - 1) \o SubSeq(q, i + 1, Len(q))
InsertAt(q, i, x) == SubSeq(q, 1, i - 1) \o <<x>> \o SubSeq(q, i, Len(q))

\* the number of executeTask invocations in flight
InFlightCount == BagCardinality(invocations)

----------------------------------------------------------------------------
(* constructor *)

NewConfig(input) ==
    [maxConcurrent |-> OrNumber(input.maxConcurrent, DefaultMaxConcurrent),
     retryDelay |-> OrNumber(input.retryDelay, DefaultRetryDelay),
     defaultMaxRetries |-> OrNumber(input.defaultMaxRetries, DefaultMaxRetries)]

InitWith(bounds) ==
    /\ limit = bounds
    /\ objs = <<>>
    /\ tasks = {}
    /\ runningTasks = {}
    /\ taskQueue = <<>>
    /\ \E input \in ConfigInputs : config = NewConfig(input)
    /\ isRunning = FALSE
    /\ loops = 0
    /\ invocations = EmptyBag
    /\ executorCalls = <<>>
    /\ hist = <<>>
    /\ events = 0
    /\ cancelledQueued = {}

Init == InitWith(BaseLimit)
InitWide == InitWith(WideLimit)
InitPriority == InitWith(PriorityLimit)
InitOneJob == InitWith(OneJobLimit)
InitDeferral == InitWith(DeferralLimit)

----------------------------------------------------------------------------
(* createTask, queueTask, generateTaskId *)

\* one more call by the caller, or one more throw
Event ==
    /\ events < limit.events
    /\ events' = events + 1

\* An id is the string task_<Date.now()>_<digits of Math.random()>. The n-th distinct
\* id handed out is written n: generateTaskId is the id of a call whose pair of clock
\* value and random number was not drawn before, and createTaskSameId below is the
\* call whose pair was drawn before.
generateTaskId == Len(objs) + 1

\* the scan of queueTask with >= for >
InsertIndexBeforeEqual(q, o, tbl, taskPriority) ==
    LET later == {i \in 1 .. Len(q) :
                     q[i] \in tbl /\ priorityOrder[o[q[i]].priority] >= taskPriority}
    IN  IF later = {} THEN Len(q) + 1
        ELSE CHOOSE i \in later : \A j \in later : i <= j

\* the index (1-based) at which queueTask splices taskPriority into q
InsertIndex(q, o, tbl, taskPriority) ==
    LET later == {i \in 1 .. Len(q) :
                     q[i] \in tbl /\ priorityOrder[o[q[i]].priority] > taskPriority}
    IN  IF later = {} THEN Len(q) + 1
        ELSE CHOOSE i \in later : \A j \in later : i <= j

queueTask(q, o, tbl, taskId) ==
    IF taskId \notin tbl THEN q
    ELSE InsertAt(q, InsertIndex(q, o, tbl, priorityOrder[o[taskId].priority]), taskId)

NewTask(options) ==
    [priority |-> OrString(options.priority, "medium"),
     status |-> "queued",
     progress |-> 0,
     startedAt |-> 0,
     completedAt |-> 0,
     result |-> "undefined",
     error |-> "undefined",
     dependencies |-> options.dependencies,
     retries |-> 0,
     maxRetries |-> OrNumber(options.maxRetries, config.defaultMaxRetries)]

createTask(options) ==
    /\ Len(objs) < limit.tasks
    /\ Event
    /\ LET taskId == generateTaskId
           o == Append(objs, NewTask(options))
           tbl == tasks \cup {taskId}
       IN  /\ objs' = o
           /\ tasks' = tbl
           /\ taskQueue' = queueTask(taskQueue, o, tbl, taskId)
    /\ executorCalls' = Append(executorCalls, 0)
    /\ hist' = Append(hist, [runs |-> 0, thrown |-> 0, finished |-> 0, delay |-> 0])
    /\ UNCHANGED <<runningTasks, config, limit, isRunning, loops, invocations,
                   cancelledQueued>>

\* createTask when Date.now() and Math.random() return what they returned for the
\* earlier id taskId: tasks.set puts the new object in the place of the old one and
\* queueTask inserts the id once more. (Taken only while no executeTask invocation
\* of taskId is awaiting, as such an invocation would go on writing to the old
\* object.)
createTaskSameId(options, taskId) ==
    /\ taskId \in DOMAIN objs
    /\ \A v \in BagToSet(invocations) : v.id # taskId
    /\ Event
    /\ LET o == [objs EXCEPT ![taskId] = NewTask(options)]
           tbl == tasks \cup {taskId}
       IN  /\ objs' = o
           /\ tasks' = tbl
           /\ taskQueue' = queueTask(taskQueue, o, tbl, taskId)
    /\ UNCHANGED <<runningTasks, config, limit, isRunning, loops, invocations,
                   executorCalls, hist, cancelledQueued>>

----------------------------------------------------------------------------
(* processQueue and the part of executeTask that runs before its first await *)

\* the dependency test without its status comparison
allDepsPresent(o, tbl, taskId) ==
    \A depId \in o[taskId].dependencies : depId \in tbl

\* the dependency test counting a dependency that is not in the table as met
allPresentDepsCompleted(o, tbl, taskId) ==
    \A depId \in o[taskId].dependencies : depId \in tbl => o[depId].status = "completed"

\* task.dependencies.every(dep => dep && dep.status === 'completed')
allDepsCompleted(o, tbl, taskId) ==
    \A depId \in o[taskId].dependencies : depId \in tbl /\ o[depId].status = "completed"

\* the capacity test with <= for <
CanDequeueOffByOne(running, q) ==
    Cardinality(running) <= config.maxConcurrent /\ Len(q) > 0

\* the test with a queue that must hold more than one entry
CanDequeueMoreThanOne(running, q) ==
    Cardinality(running) < config.maxConcurrent /\ Len(q) > 1

\* the test of processQueue before it shifts the queue
CanDequeue(running, q) ==
    Cardinality(running) < config.maxConcurrent /\ Len(q) > 0

\* executeTask(taskId), called with the queue q that is left after the shift
executeTask(taskId, q) ==
    IF taskId \notin tasks
    THEN /\ taskQueue' = q
         /\ UNCHANGED <<objs, runningTasks, invocations, hist>>
    ELSE IF ~allDepsCompleted(objs, tasks, taskId)
    THEN /\ taskQueue' = Append(q, taskId)
         /\ UNCHANGED <<objs, runningTasks, invocations, hist>>
    ELSE /\ InFlightCount < limit.inFlight
         /\ hist[taskId].runs < limit.runs
         /\ taskQueue' = q
         /\ runningTasks' = runningTasks \cup {taskId}
         /\ hist' = [hist EXCEPT ![taskId].runs = @ + 1]
         /\ objs' = [objs EXCEPT ![taskId].status = "running",
                                 ![taskId].startedAt = hist[taskId].runs + 1,
                                 ![taskId].progress = 0]
         /\ invocations' = invocations (+) SetToBag({[id |-> taskId, at |-> "progress", i |-> 0]})

\* one iteration of the while loop of processQueue, up to its await
Iteration ==
    IF CanDequeue(runningTasks, taskQueue)
    THEN executeTask(Head(taskQueue), Tail(taskQueue))
    ELSE UNCHANGED <<objs, runningTasks, taskQueue, invocations, hist>>

start ==
    /\ IF isRunning
       THEN UNCHANGED <<objs, runningTasks, taskQueue, invocations, hist, isRunning, loops>>
       ELSE /\ loops < limit.loops
            /\ isRunning' = TRUE
            /\ Iteration
            /\ loops' = loops + 1
    /\ UNCHANGED <<tasks, config, limit, executorCalls, events, cancelledQueued>>

stop ==
    /\ Event
    /\ isRunning' = FALSE
    /\ UNCHANGED <<objs, tasks, runningTasks, taskQueue, config, limit, loops, invocations,
                   executorCalls, hist, cancelledQueued>>

\* the wake-up of a processQueue invocation without the test of this.isRunning
PollWithoutTest ==
    /\ loops > 0
    /\ Iteration /\ UNCHANGED loops
    /\ UNCHANGED <<tasks, config, limit, isRunning, executorCalls, events,
                   cancelledQueued>>

\* a processQueue invocation wakes from its timer and tests while (this.isRunning)
Poll ==
    /\ loops > 0
    /\ IF isRunning
       THEN Iteration /\ UNCHANGED loops
       ELSE /\ loops' = loops - 1
            /\ UNCHANGED <<objs, runningTasks, taskQueue, invocations, hist>>
    /\ UNCHANGED <<tasks, config, limit, isRunning, executorCalls, events,
                   cancelledQueued>>

----------------------------------------------------------------------------
(* executeTask after its first await: the try block, catch and finally *)

Awaiting(v) == SetToBag({v})

\* the retry decision with <= for <
ShouldRetryOffByOne(task) == task.retries <= task.maxRetries

\* the retry decision of the catch block
ShouldRetry(task) == task.retries < task.maxRetries

\* the 200 ms timer of the progress loop fires: i += 10, then either the next
\* round of the loop or the end of the try block followed by finally
ProgressTimer(v) ==
    /\ BagIn(v, invocations)
    /\ v.at = "progress"
    /\ LET i == v.i + ProgressStep IN
       IF i <= ProgressLimit
       THEN /\ objs' = [objs EXCEPT ![v.id].progress = i]
            /\ invocations' = (invocations (-) Awaiting(v)) (+) Awaiting([v EXCEPT !.i = i])
            /\ UNCHANGED <<runningTasks, hist>>
       ELSE /\ objs' = [objs EXCEPT ![v.id].status = "completed",
                                    ![v.id].completedAt = hist[v.id].finished + 1,
                                    ![v.id].progress = 100,
                                    ![v.id].result = "success"]
            /\ hist' = [hist EXCEPT ![v.id].finished = @ + 1]
            /\ runningTasks' = runningTasks \ {v.id}
            /\ invocations' = invocations (-) Awaiting(v)
    /\ UNCHANGED <<tasks, taskQueue, config, limit, isRunning, loops, executorCalls,
                   events, cancelledQueued>>

\* the try block throws and nothing catches it: the invocation ends there and the
\* scheduler goes down with it
ThrowUncaught(v) ==
    /\ BagIn(v, invocations)
    /\ v.at = "progress"
    /\ Event
    /\ hist' = [hist EXCEPT ![v.id].thrown = @ + 1]
    /\ invocations' = invocations (-) Awaiting(v)
    /\ isRunning' = FALSE
    /\ UNCHANGED <<objs, tasks, runningTasks, taskQueue, config, limit, loops,
                   executorCalls, cancelledQueued>>

\* the try block throws: catch, then either the retry delay or finally
Throw(v) ==
    /\ BagIn(v, invocations)
    /\ v.at = "progress"
    /\ Event
    /\ IF ShouldRetry(objs[v.id])
       THEN /\ hist' = [hist EXCEPT ![v.id].thrown = @ + 1,
                                    ![v.id].delay = config.retryDelay]
            /\ objs' = [objs EXCEPT ![v.id].error = "thrown",
                                    ![v.id].retries = @ + 1,
                                    ![v.id].status = "queued"]
            /\ taskQueue' = Append(taskQueue, v.id)
            /\ invocations' = (invocations (-) Awaiting(v))
                                 (+) Awaiting([id |-> v.id, at |-> "retryDelay", i |-> 0])
            /\ UNCHANGED runningTasks
       ELSE /\ hist' = [hist EXCEPT ![v.id].thrown = @ + 1]
            /\ objs' = [objs EXCEPT ![v.id].error = "thrown",
                                    ![v.id].status = "failed"]
            /\ runningTasks' = runningTasks \ {v.id}
            /\ invocations' = invocations (-) Awaiting(v)
            /\ UNCHANGED taskQueue
    /\ UNCHANGED <<tasks, config, limit, isRunning, loops, executorCalls, cancelledQueued>>

\* the retryDelay timer fires: finally
RetryTimer(v) ==
    /\ BagIn(v, invocations)
    /\ v.at = "retryDelay"
    /\ runningTasks' = runningTasks \ {v.id}
    /\ invocations' = invocations (-) Awaiting(v)
    /\ UNCHANGED <<objs, tasks, taskQueue, config, limit, isRunning, loops, executorCalls,
                   hist, events, cancelledQueued>>

----------------------------------------------------------------------------
(* the queries *)

\* getTasksByStatus over every job ever built, purged ones included
getTasksByStatusEver(status) == {id \in DOMAIN objs : objs[id].status = status}

getTasksByStatus(status) == {id \in tasks : objs[id].status = status}

getStats ==
    [total |-> Cardinality(tasks),
     queued |-> Cardinality(getTasksByStatus("queued")),
     running |-> Cardinality(getTasksByStatus("running")),
     completed |-> Cardinality(getTasksByStatus("completed")),
     failed |-> Cardinality(getTasksByStatus("failed")),
     paused |-> Cardinality(getTasksByStatus("paused"))]

----------------------------------------------------------------------------
(* pauseTask, resumeTask, cancelTask, clearCompleted *)

\* what the three control operations and clearCompleted may write, and the rest
Controlled == <<objs, tasks, taskQueue>>
NotControlled ==
    <<runningTasks, config, limit, isRunning, loops, invocations, executorCalls, hist>>

\* the test of resumeTask that also lets a 'queued' job through
CanResumeOrQueued(taskId) ==
    taskId \in tasks /\ objs[taskId].status \in {"paused", "queued"}

CanPause(taskId) == taskId \in tasks /\ objs[taskId].status = "running"
CanResume(taskId) == taskId \in tasks /\ objs[taskId].status = "paused"
CanCancel(taskId) == taskId \in tasks

pauseTask(taskId) ==
    /\ Event
    /\ IF CanPause(taskId)
       THEN /\ objs' = SetStatus(objs, taskId, "paused")
            /\ UNCHANGED <<tasks, taskQueue>>
       ELSE UNCHANGED Controlled
    /\ UNCHANGED <<NotControlled, cancelledQueued>>

\* resumeTask writing the status without the call of queueTask
resumeTaskStatusOnly(taskId) ==
    /\ Event
    /\ IF CanResume(taskId)
       THEN /\ objs' = SetStatus(objs, taskId, "queued")
            /\ UNCHANGED <<tasks, taskQueue>>
       ELSE UNCHANGED Controlled
    /\ UNCHANGED <<NotControlled, cancelledQueued>>

resumeTask(taskId) ==
    /\ Event
    /\ IF CanResume(taskId)
       THEN /\ objs' = SetStatus(objs, taskId, "queued")
            /\ taskQueue' = queueTask(taskQueue, objs', tasks, taskId)
            /\ UNCHANGED tasks
       ELSE UNCHANGED Controlled
    /\ UNCHANGED <<NotControlled, cancelledQueued>>

cancelTask(taskId) ==
    /\ Event
    /\ IF CanCancel(taskId)
       THEN /\ objs' = [objs EXCEPT ![taskId].status = "failed",
                                    ![taskId].error = "Cancelled by user"]
            /\ taskQueue' = LET queueIndex == IndexOf(taskQueue, taskId)
                            IN  IF queueIndex > 0 THEN RemoveAt(taskQueue, queueIndex)
                                ELSE taskQueue
            /\ UNCHANGED tasks
       ELSE UNCHANGED Controlled
    /\ cancelledQueued' = IF CanCancel(taskId) /\ objs[taskId].status = "queued"
                          THEN cancelledQueued \cup {taskId} ELSE cancelledQueued
    /\ UNCHANGED NotControlled

\* clearCompleted deleting the 'failed' jobs as well
clearTerminal ==
    /\ Event
    /\ tasks' = tasks \ (getTasksByStatus("completed") \cup getTasksByStatus("failed"))
    /\ UNCHANGED <<objs, taskQueue>>
    /\ UNCHANGED <<NotControlled, cancelledQueued>>

clearCompleted ==
    /\ Event
    /\ tasks' = tasks \ getTasksByStatus("completed")
    /\ UNCHANGED <<objs, taskQueue>>
    /\ UNCHANGED <<NotControlled, cancelledQueued>>

----------------------------------------------------------------------------
(* The specification *)

Submit == \E options \in OptionInputs : createTask(options)

Progress == \E v \in BagToSet(invocations) : ProgressTimer(v)
RetryDelayEnds == \E v \in BagToSet(invocations) : RetryTimer(v)
BodyThrows == \E v \in BagToSet(invocations) : Throw(v)
Pause == \E taskId \in Ids : pauseTask(taskId)
Resume == \E taskId \in Ids : resumeTask(taskId)
Cancel == \E taskId \in Ids : cancelTask(taskId)

Next ==
    \/ Submit
    \/ start
    \/ stop
    \/ Poll
    \/ Progress
    \/ RetryDelayEnds
    \/ BodyThrows
    \/ Pause
    \/ Resume
    \/ Cancel
    \/ clearCompleted

Spec == Init /\ [][Next]_vars

\* the same program under the wider bounds
SpecWide == InitWide /\ [][Next]_vars

\* the same program with a single job and a longer history of calls and throws
SpecOneJob == InitOneJob /\ [][Next]_vars

\* The try block as it is written, a progress loop in which nothing throws: every
\* call of the caller, the control loop and the progress timers
NextSimulated ==
    \/ Submit
    \/ start
    \/ stop
    \/ Poll
    \/ Progress
    \/ Pause
    \/ Resume
    \/ Cancel
    \/ clearCompleted

SpecSimulated == Init /\ [][NextSimulated]_vars

\* the same with one more job
SpecSimulatedMore == InitPriority /\ [][NextSimulated]_vars

\* the same with a longer history of calls, for jobs that run once and one at a time
SpecDeferral == InitDeferral /\ [][NextSimulated]_vars

\* The same, with clock values and random numbers that may repeat
SubmitSameId ==
    \E options \in OptionInputs : \E taskId \in DOMAIN objs :
        createTaskSameId(options, taskId)

NextRepeatedIds ==
    \/ Submit
    \/ SubmitSameId
    \/ start
    \/ stop
    \/ Poll
    \/ Progress
    \/ Pause
    \/ Resume
    \/ Cancel
    \/ clearCompleted

SpecRepeatedIds == Init /\ [][NextRepeatedIds]_vars

\* The scheduler is never stopped, no job is paused or cancelled and no try block
\* throws; the timers of the control loop and of the progress loops keep firing
NextLive ==
    \/ Submit
    \/ start
    \/ Poll
    \/ Progress
    \/ clearCompleted

Fairness == WF_vars(Poll) /\ WF_vars(Progress)

SpecLive == Init /\ [][NextLive]_vars /\ Fairness

\* Jobs without dependencies, all submitted before start(); no stop, no control
\* call, no throw
PriorityOptionInputs ==
    {[priority |-> p, dependencies |-> {}, maxRetries |-> 0] :
        p \in {"undefined"} \cup Priorities}

SubmitBeforeStart ==
    /\ ~isRunning /\ loops = 0
    /\ \E options \in PriorityOptionInputs : createTask(options)

NextPriority ==
    \/ SubmitBeforeStart
    \/ start
    \/ Poll
    \/ Progress

SpecPriority == InitPriority /\ [][NextPriority]_vars

----------------------------------------------------------------------------
(* Properties *)

Range(q) == {q[i] : i \in 1 .. Len(q)}
Terminal == {"completed", "failed"}

\* the ids whose executeTask run starts in this step
Started(id) == hist'[id].runs > hist[id].runs
\* the ids whose try block throws in this step
Threw(id) == hist'[id].thrown > hist[id].thrown

\* C1: in every reachable state the Running Set holds at most maxConcurrent ids
C1_RunningSetBound == Cardinality(runningTasks) <= config.maxConcurrent

\* the Running Set is full while the loop is active and an id waits in the queue
C1_Witness ==
    /\ Cardinality(runningTasks) = config.maxConcurrent
    /\ isRunning /\ loops > 0
    /\ Len(taskQueue) > 0
    /\ \E id \in tasks : objs[id].status = "queued" /\ objs[id].dependencies = {}

\* C2: in every reachable state at most maxConcurrent jobs have status 'running'
C2_RunningStatusBound == getStats.running <= config.maxConcurrent

\* C3: a step that starts a run of a job (the job becomes 'running') is taken only
\* when every id in its dependencies is in the job table with status 'completed'
C3_RunsOnlyAfterDependencies ==
    [][\A id \in DOMAIN objs :
          (Started(id) \/ (objs'[id].status = "running" /\ objs[id].status # "running"))
             => \A depId \in objs[id].dependencies :
                   depId \in tasks /\ objs[depId].status = "completed"]_vars

\* a job that depends on another job is running
C3_Witness ==
    \E id \in tasks :
        /\ objs[id].status = "running"
        /\ \E depId \in objs[id].dependencies : depId # id /\ objs[depId].status = "completed"

\* the priority rank of a job, and the order of ranks with ties by submission
Rank(id) == priorityOrder[objs[id].priority]
Before(a, b) == Rank(a) < Rank(b) \/ (Rank(a) = Rank(b) /\ a < b)

\* C4: under SpecPriority every job that starts is before every job that has not
\* started yet, in the order of priority rank with ties broken by submission order
C4_StartsInPriorityOrder ==
    [][\A id \in DOMAIN objs :
          Started(id) => \A other \in DOMAIN objs \ {id} :
                            hist[other].runs = 0 => Before(id, other)]_vars

\* a job submitted later has completed while an earlier job of lower priority and
\* an earlier job of the same priority are involved
C4_Witness ==
    \E a, b, c \in tasks :
        /\ a < b /\ b < c
        /\ Rank(c) < Rank(a) /\ Rank(a) = Rank(b)
        /\ objs[c].status = "completed"
        /\ objs[a].status = "running"
        /\ hist[b].runs = 0

\* C5 as stated: a job is 'failed' if and only if its body has failed exactly
\* maxRetries + 1 times
C5_FailedIffRetriesExhausted ==
    \A id \in tasks :
        objs[id].status = "failed" <=> hist[id].thrown = objs[id].maxRetries + 1

\* C5 as amended: the body failure number maxRetries + 1 of a job sets it 'failed'
\* with retries = maxRetries, and a job that is 'failed' with another error than
\* 'Cancelled by user' has retries = maxRetries and at least maxRetries + 1 failures
C5_FailedByRetriesOrCancel ==
    [][\A id \in DOMAIN objs :
          /\ (Threw(id) /\ hist'[id].thrown = objs[id].maxRetries + 1)
                => (objs'[id].status = "failed" /\ objs'[id].retries = objs[id].maxRetries)
          /\ (objs'[id].status = "failed" /\ objs'[id].error # "Cancelled by user")
                => (/\ hist'[id].thrown >= objs[id].maxRetries + 1
                    /\ objs'[id].retries = objs[id].maxRetries)]_vars

\* a job has failed after maxRetries + 1 runs that all threw
C5_Witness ==
    \E id \in tasks :
        /\ objs[id].status = "failed" /\ objs[id].error = "thrown"
        /\ hist[id].thrown = objs[id].maxRetries + 1
        /\ hist[id].runs = objs[id].maxRetries + 1

\* C6: every run of a job calls the executor given to createTask exactly once, and a
\* job is 'completed' only if one of those calls succeeded
C6_ExecutorCalledOncePerAttempt ==
    \A id \in DOMAIN objs :
        /\ executorCalls[id] = hist[id].runs
        /\ objs[id].status = "completed" => executorCalls[id] >= 1

\* C7: retries never exceeds maxRetries, and a throw at retries = maxRetries sets the
\* job 'failed' and leaves the queue and retries as they are
C7_RetriesBounded ==
    [][\A id \in DOMAIN objs :
          /\ objs[id].retries <= objs[id].maxRetries
          /\ objs'[id].retries <= objs'[id].maxRetries
          /\ (Threw(id) /\ objs[id].retries = objs[id].maxRetries)
                => /\ objs'[id].status = "failed"
                   /\ objs'[id].retries = objs[id].retries
                   /\ taskQueue' = taskQueue]_vars

\* a job has used all its retries and failed, and is not in the queue
C7_Witness ==
    \E id \in tasks :
        /\ objs[id].retries = objs[id].maxRetries
        /\ objs[id].status = "failed" /\ objs[id].error = "thrown"
        /\ id \notin Range(taskQueue)

\* C8: a job cancelled while 'queued' never has status 'running' afterwards
C8_CancelledQueuedNeverRuns ==
    \A id \in cancelledQueued : objs[id].status # "running"

\* C9: a job whose status is 'completed' or 'failed' keeps that status
C9_TerminalIsFinal ==
    [][\A id \in DOMAIN objs :
          objs[id].status \in Terminal => objs'[id].status = objs[id].status]_vars

\* C10: pauseTask on a job that is not 'running', resumeTask on a job that is not
\* 'paused', cancelTask on a job that is 'completed' or 'failed', and each of them on
\* an unknown id, leave the job table, the queue and the Running Set unchanged
C10_MisappliedControlIsNoOp ==
    [][\A taskId \in Ids :
          (\/ pauseTask(taskId) /\ ~CanPause(taskId)
           \/ resumeTask(taskId) /\ ~CanResume(taskId)
           \/ cancelTask(taskId) /\ (taskId \notin tasks \/ objs[taskId].status \in Terminal))
             => UNCHANGED <<objs, tasks, taskQueue, runningTasks>>]_vars

\* what a caller can observe of the scheduler: job records, table, queue, Running Set
Observable == <<objs, tasks, taskQueue, runningTasks>>

\* a call of pauseTask(taskId), or of resumeTask(taskId), in this state would change
\* something
PauseWouldChange(taskId) == ENABLED (pauseTask(taskId) /\ Observable' # Observable)
ResumeWouldChange(taskId) == ENABLED (resumeTask(taskId) /\ Observable' # Observable)

\* the number of entries of q that hold x
Occurrences(q, x) == Cardinality({i \in 1 .. Len(q) : q[i] = x})

\* C11: right after pauseTask(id) a second pauseTask(id) changes nothing, and right
\* after resumeTask(id) a second resumeTask(id) changes nothing; a resumeTask that
\* takes effect adds exactly one entry for the id to the queue
C11_PauseResumeIdempotent ==
    [][\A taskId \in Ids :
          /\ pauseTask(taskId) => ~PauseWouldChange(taskId)'
          /\ resumeTask(taskId) => ~ResumeWouldChange(taskId)'
          /\ (resumeTask(taskId) /\ CanResume(taskId))
                => Occurrences(taskQueue', taskId) = Occurrences(taskQueue, taskId) + 1]_vars

\* a job was paused and resumed, it waits in the queue, and the caller can call again
C11_Witness ==
    \E id \in tasks :
        /\ objs[id].status = "queued"
        /\ hist[id].runs > 0 /\ hist[id].thrown = 0
        /\ Occurrences(taskQueue, id) = 1
        /\ events < limit.events

\* C12: a status change out of 'queued' goes to 'running' or 'failed', and a status
\* change out of 'running' goes to 'completed', 'queued', 'paused' or 'failed'
C12_StatusSuccessors ==
    [][\A id \in DOMAIN objs :
          /\ (objs[id].status = "queued" /\ objs'[id].status # "queued")
                => objs'[id].status \in {"running", "failed"}
          /\ (objs[id].status = "running" /\ objs'[id].status # "running")
                => objs'[id].status \in {"completed", "queued", "paused", "failed"}]_vars

\* C13: a job submitted with options.maxRetries = k has maxRetries = k, for k = 0 too
\* (a caller who passes no maxRetries is written as passing 0 in OptionInputs; the
\* code treats the two alike)
C13_MaxRetriesAsGiven ==
    [][\A options \in OptionInputs :
          createTask(options) => objs'[generateTaskId].maxRetries = options.maxRetries]_vars

\* C14: no job in the job table has both a result and an error
C14_ResultErrorExclusive ==
    \A id \in tasks : ~(objs[id].result # "undefined" /\ objs[id].error # "undefined")

\* q without the entries that hold x
Without(q, x) == SelectSeq(q, LAMBDA y : y # x)

\* C15: a cancelTask(id) step on a job that is 'queued', 'running' or 'paused' leaves
\* the job 'failed' with error 'Cancelled by user' and the queue without any entry for
\* the id, and changes no other job and no other queue entry
C15_CancelEffect ==
    [][\A taskId \in Ids :
          (/\ cancelTask(taskId)
           /\ taskId \in tasks
           /\ objs[taskId].status \in {"queued", "running", "paused"})
             => /\ objs'[taskId].status = "failed"
                /\ objs'[taskId].error = "Cancelled by user"
                /\ taskId \notin Range(taskQueue')
                /\ Without(taskQueue', taskId) = Without(taskQueue, taskId)
                /\ tasks' = tasks
                /\ \A other \in DOMAIN objs \ {taskId} : objs'[other] = objs[other]]_vars

\* with the job records o and the table tbl, the queue entry a holds a job of
\* strictly lower priority than the job b
LowerPriority(o, tbl, a, b) ==
    a \in tbl /\ priorityOrder[o[a].priority] > priorityOrder[o[b].priority]

\* q2 is q1 with x put in before the first entry of strictly lower priority than x,
\* or at the end when there is no such entry
InsertedByPriority(o, tbl, q1, q2, x) ==
    \E k \in 1 .. Len(q1) + 1 :
        /\ q2 = SubSeq(q1, 1, k - 1) \o <<x>> \o SubSeq(q1, k, Len(q1))
        /\ \A j \in 1 .. k - 1 : ~LowerPriority(o, tbl, q1[j], x)
        /\ k <= Len(q1) => LowerPriority(o, tbl, q1[k], x)

\* C16: a resumeTask(id) step on a 'paused' job leaves it 'queued' with its id put
\* into the queue at the position of priority insertion, the other entries in place
C16_ResumeInsertsByPriority ==
    [][\A taskId \in Ids :
          (resumeTask(taskId) /\ taskId \in tasks /\ objs[taskId].status = "paused")
             => /\ objs'[taskId].status = "queued"
                /\ InsertedByPriority(objs, tasks, taskQueue, taskQueue', taskId)]_vars

\* a job that was paused and resumed stands in the queue right behind another job of
\* its own priority
C16_Witness ==
    \E id \in tasks :
        /\ objs[id].status = "queued"
        /\ hist[id].runs > 0 /\ hist[id].thrown = 0
        /\ \E i \in 2 .. Len(taskQueue) :
               /\ taskQueue[i] = id
               /\ taskQueue[i - 1] \in tasks \ {id}
               /\ Rank(taskQueue[i - 1]) = Rank(id)

\* C17: a clearCompleted step removes from the job table exactly the jobs that are
\* 'completed' and leaves the job records, the queue and the Running Set as they are
C17_ClearCompletedFrame ==
    [][clearCompleted
          => /\ tasks' = {id \in tasks : objs[id].status # "completed"}
             /\ objs' = objs
             /\ taskQueue' = taskQueue
             /\ runningTasks' = runningTasks]_vars

\* a completed job was purged from the table while a queued, a running or a failed
\* job stays in it
C17_Witness ==
    /\ \E id \in DOMAIN objs \ tasks : objs[id].status = "completed"
    /\ \E id \in tasks : objs[id].status \in {"queued", "running", "failed"}

\* what the claim says of a createTask(options) step besides the order of jobs of
\* equal priority
CreateEffect(options) ==
    LET taskId == generateTaskId IN
    /\ taskId \notin DOMAIN objs /\ taskId \notin tasks
    /\ tasks' = tasks \cup {taskId}
    /\ objs'[taskId].status = "queued"
    /\ objs'[taskId].progress = 0
    /\ objs'[taskId].retries = 0
    /\ InsertedByPriority(objs', tasks', taskQueue, taskQueue', taskId)
    /\ \A other \in DOMAIN objs : objs'[other] = objs[other]

\* in q every entry that holds a job of the priority of x, other than x, is before x
BehindEqualPriority(o, tbl, q, x) ==
    \A i, j \in 1 .. Len(q) :
        (/\ q[j] = x /\ q[i] # x /\ q[i] \in tbl
         /\ priorityOrder[o[q[i]].priority] = priorityOrder[o[x].priority]) => i < j

\* createTask can be called in every state (up to the bounds of the run)
CreateNeverFails ==
    (Len(objs) < limit.tasks /\ events < limit.events)
       => \A options \in OptionInputs : ENABLED createTask(options)

C19_IdsNeverRepeat ==
    [][\A options \in OptionInputs :
          /\ createTask(options)
                => /\ generateTaskId \notin DOMAIN objs
                   /\ \A id \in DOMAIN objs : objs'[id] = objs[id]
          /\ \A taskId \in Ids :
                createTaskSameId(options, taskId)
                   => /\ taskId \notin DOMAIN objs
                      /\ \A id \in DOMAIN objs : objs'[id] = objs[id]]_vars

\* the number of jobs of the job table that have status s
CountOf(s) == Cardinality({id \in tasks : objs[id].status = s})

\* C20: getStats returns total = the number of jobs in the job table = queued +
\* running + completed + failed + paused, each count being the number of jobs that
\* have that status (getStats, getTask, getAllTasks and getTasksByStatus are functions
\* of the state: their code assigns nothing)
C20_StatsAddUp ==
    LET stats == getStats IN
    /\ stats.total = Cardinality(tasks)
    /\ stats.total = stats.queued + stats.running + stats.completed + stats.failed
                        + stats.paused
    /\ stats.queued = CountOf("queued")
    /\ stats.running = CountOf("running")
    /\ stats.completed = CountOf("completed")
    /\ stats.failed = CountOf("failed")
    /\ stats.paused = CountOf("paused")

\* one job was purged by clearCompleted and the job left in the table is paused
C20_Witness ==
    /\ \E id \in DOMAIN objs \ tasks : objs[id].status = "completed"
    /\ getStats.total = 1
    /\ getStats.paused = 1

\* a step within a stretch in which the scheduler is not started: before the first
\* start(), or after a stop() and before the next start()
StoppedStep == ~isRunning /\ ~isRunning'

\* the step takes an entry out of the queue
EntryRemoved == \E id \in Ids : Occurrences(taskQueue', id) < Occurrences(taskQueue, id)

\* the step starts a run of a job, or takes a job from 'queued' to 'running'
SomeJobStarts ==
    \E id \in DOMAIN objs :
        \/ Started(id)
        \/ objs[id].status = "queued" /\ objs'[id].status = "running"

\* C21 as stated: while the scheduler is not started no step removes an entry from
\* the queue and no job starts
C21_StoppedQueueUntouched ==
    [][StoppedStep => (~EntryRemoved /\ ~SomeJobStarts)]_vars

\* C21 as amended: while the scheduler is not started no job starts, and only a
\* cancelTask step removes an entry from the queue
C21_StoppedNothingDequeued ==
    [][StoppedStep
          => /\ ~SomeJobStarts
             /\ EntryRemoved => \E taskId \in Ids : cancelTask(taskId)]_vars

\* the scheduler was started and stopped and its loop has ended, while a job without
\* dependencies waits in the queue and the Running Set has room
C21_Witness ==
    /\ ~isRunning /\ loops = 0
    /\ \E id \in DOMAIN objs : hist[id].runs > 0
    /\ Cardinality(runningTasks) < config.maxConcurrent
    /\ Len(taskQueue) > 0
    /\ Head(taskQueue) \in tasks
    /\ objs[Head(taskQueue)].dependencies = {}
    /\ objs[Head(taskQueue)].status = "queued"

\* the scheduler is started, the job id is in the table and waits, and every one of
\* its dependencies has completed
ReadyToRun(id) ==
    /\ isRunning
    /\ id \in tasks
    /\ objs[id].status = "queued"
    /\ \A depId \in objs[id].dependencies :
           depId \in DOMAIN objs /\ objs[depId].status = "completed"

\* a dependency of the job id is no longer in the job table
DependencyPurged(id) ==
    id \in DOMAIN objs /\ \E depId \in objs[id].dependencies : depId \notin tasks

\* the job id is 'completed' or 'failed'
Finished(id) == id \in DOMAIN objs /\ objs[id].status \in Terminal

\* C22 as stated: under SpecLive a waiting job whose dependencies have all completed
\* eventually is 'completed' or 'failed'
C22_ReadyJobsFinish ==
    \A id \in Ids : ReadyToRun(id) ~> Finished(id)

\* C22 as amended: under SpecLive a waiting job whose dependencies have all completed
\* eventually is 'completed' or 'failed', unless clearCompleted has purged one of its
\* dependencies from the job table
C22_ReadyJobsFinishUnlessPurged ==
    \A id \in Ids :
        ReadyToRun(id) ~> (Finished(id) \/ DependencyPurged(id))

\* a job that depends on another job has completed
C22_Witness ==
    \E id \in tasks :
        /\ objs[id].status = "completed"
        /\ \E depId \in objs[id].dependencies : depId # id /\ depId \in tasks

\* C23: the delay before the next attempt of a job grows from one retry of the job to
\* the next
C23_RetryDelayGrows ==
    [][\A id \in DOMAIN objs :
          (Threw(id) /\ objs'[id].retries > objs[id].retries /\ hist[id].delay > 0)
             => hist'[id].delay > hist[id].delay]_vars

\* an executeTask invocation of the job id is waiting out its retry delay
InRetryDelay(id) == \E v \in BagToSet(invocations) : v.id = id /\ v.at = "retryDelay"

\* C24: while an invocation of a job waits out its retry delay the id of the job is
\* not in the queue and no run of the job starts
C24_NoAttemptDuringRetryDelay ==
    [][\A id \in DOMAIN objs :
          /\ InRetryDelay(id)' => id \notin Range(taskQueue')
          /\ InRetryDelay(id) => ~Started(id)]_vars

\* the number of executeTask invocations of the job id that are awaiting in bag b
InvocationsOf(b, id) ==
    BagCardinality([v \in {w \in BagToSet(b) : w.id = id} |-> CopiesIn(v, b)])

\* C25: a step that ends an invocation of a job leaves the id out of the Running Set,
\* the Running Set is empty when no invocation is awaiting, and a step that removes an
\* id from the Running Set leaves no invocation of that job awaiting
C25_RunningSetFollowsAttempts ==
    [][/\ InFlightCount' = 0 => runningTasks' = {}
       /\ \A id \in DOMAIN objs :
             /\ InvocationsOf(invocations', id) < InvocationsOf(invocations, id)
                   => id \notin runningTasks'
             /\ (id \in runningTasks /\ id \notin runningTasks')
                   => InvocationsOf(invocations', id) = 0]_vars

\* the step is an iteration of the control loop that takes the id of a job of the
\* table from the head of the queue while a dependency of the job is not 'completed'
Deferred(id) ==
    /\ (start /\ ~isRunning) \/ (Poll /\ isRunning)
    /\ Cardinality(runningTasks) < config.maxConcurrent
    /\ Len(taskQueue) > 0
    /\ Head(taskQueue) = id
    /\ id \in tasks
    /\ \E depId \in objs[id].dependencies :
           depId \notin tasks \/ objs[depId].status # "completed"

\* the step moves the head of the queue to its tail and leaves the job records, the
\* job table, the Running Set and the invocations in flight as they are
OnlyMovedToTail ==
    /\ taskQueue' = Append(Tail(taskQueue), Head(taskQueue))
    /\ objs' = objs
    /\ tasks' = tasks
    /\ runningTasks' = runningTasks
    /\ invocations' = invocations

\* the next wake-up of the control loop will defer the job id
AboutToDefer(id) ==
    /\ isRunning /\ loops > 0
    /\ Cardinality(runningTasks) < config.maxConcurrent
    /\ Len(taskQueue) > 0
    /\ Head(taskQueue) = id
    /\ id \in tasks
    /\ \E depId \in objs[id].dependencies :
           depId \notin tasks \/ objs[depId].status # "completed"

C27_QueuePriorityOrdered ==
    \A i, j \in 1 .. Len(taskQueue) :
        (i < j /\ {taskQueue[i], taskQueue[j]} \subseteq tasks)
            => Rank(taskQueue[i]) <= Rank(taskQueue[j])

\* C28: startedAt and completedAt of a job are written once: no step changes a
\* startedAt that was written by an earlier attempt, and no step changes a
\* completedAt that was written by an earlier completion
C28_TimestampsWrittenOnce ==
    [][\A id \in DOMAIN objs :
          /\ objs[id].startedAt # 0 => objs'[id].startedAt = objs[id].startedAt
          /\ objs[id].completedAt # 0
                => objs'[id].completedAt = objs[id].completedAt]_vars

\* C29: a job leaves status 'paused' only in a resumeTask of it, which makes it
\* 'queued', or in a cancelTask of it, which makes it 'failed'; in particular the end
\* of the body in flight leaves a paused job 'paused'
C29_PausedLeavesByResumeOrCancel ==
    [][\A id \in tasks :
          (objs[id].status = "paused" /\ objs'[id].status # "paused")
              => \/ resumeTask(id) /\ objs'[id].status = "queued"
                 \/ cancelTask(id) /\ objs'[id].status = "failed"]_vars

\* C30: neither the queue nor the Running Set holds the id of a job of the table
\* whose status is 'completed', so that the jobs clearCompleted deletes are neither
\* queued nor running
C30_CompletedNotQueuedNorRunning ==
    \A id \in tasks :
        objs[id].status = "completed"
            => id \notin Range(taskQueue) /\ id \notin runningTasks

\* C31: a step in which the body of the job id throws changes of the job records
\* only error, retries and status of that job, leaves the job table, isRunning and
\* the control loops as they are, changes the membership of no other id in the
\* Running Set, and leaves every queue entry at its position (the id of the job
\* itself may be appended behind them)
C31_ThrowStaysLocal ==
    [][\A id \in DOMAIN objs :
          Threw(id) =>
              /\ isRunning' = isRunning /\ loops' = loops /\ tasks' = tasks
              /\ \A other \in DOMAIN objs \ {id} :
                     /\ objs'[other] = objs[other]
                     /\ (other \in runningTasks') = (other \in runningTasks)
              /\ objs'[id] = [objs[id] EXCEPT !.error = objs'[id].error,
                                              !.retries = objs'[id].retries,
                                              !.status = objs'[id].status]
              /\ \/ taskQueue' = taskQueue
                 \/ taskQueue' = Append(taskQueue, id)]_vars

\* the body of one job has thrown while the scheduler is started and another job
\* is running or waits in the queue
C31_Witness ==
    /\ isRunning
    /\ \E id, other \in tasks :
           /\ id # other
           /\ hist[id].thrown > 0
           /\ objs[id].error = "thrown"
           /\ objs[other].status \in {"running", "queued"}
           /\ other \in runningTasks \cup Range(taskQueue)

\* C32: at most one processQueue invocation is alive in every reachable state
C32_AtMostOneLoop == loops <= 1

\* the job a depends on the job b through a chain of at most n dependencies
RECURSIVE DependsWithin(_, _, _)
DependsWithin(a, b, n) ==
    /\ n > 0
    /\ a \in DOMAIN objs
    /\ \/ b \in objs[a].dependencies
       \/ \E c \in objs[a].dependencies : DependsWithin(c, b, n - 1)

\* the job id is on a cycle of dependencies (a dependency on itself included)
InCycle(id) == DependsWithin(id, id, Len(objs))

\* C33: a job on a cycle of dependencies has never been started, and unless
\* cancelTask was called on it, it has status 'queued' and its id is in the queue
C33_CyclicJobsStayQueued ==
    \A id \in DOMAIN objs :
        InCycle(id) =>
            /\ hist[id].runs = 0
            /\ objs[id].status # "running"
            /\ id \notin cancelledQueued
                  => objs[id].status = "queued" /\ id \in Range(taskQueue)

\* while the scheduler is started and has deferred a job on a cycle of dependencies
\* to the tail of the queue, a job outside every cycle has run to completion
C33_Witness ==
    /\ isRunning
    /\ \E id, other \in tasks :
           /\ InCycle(id) /\ ~InCycle(other)
           /\ objs[id].status = "queued"
           /\ id \in Range(taskQueue)
           /\ objs[other].status = "completed"
           /\ ~(\E depId \in objs[other].dependencies : InCycle(depId))

\* C34: the progress of every job is an integer of 0 .. 100, it is 100 when the
\* status of the job is 'completed', and no step lowers the progress of a job whose
\* status is 'running' before and after the step
C34_ProgressMonotone ==
    /\ [](\A id \in DOMAIN objs :
              /\ objs[id].progress \in 0 .. 100
              /\ objs[id].status = "completed" => objs[id].progress = 100)
    /\ [][\A id \in DOMAIN objs :
              (objs[id].status = "running" /\ objs'[id].status = "running")
                  => objs'[id].progress >= objs[id].progress]_vars

\* C35: every job of the table whose status is 'queued' has its id in the queue
C35_QueuedJobsAreInQueue ==
    \A id \in tasks : objs[id].status = "queued" => id \in Range(taskQueue)

\* a job that was started before is 'queued' again, after a retry or a resume, and
\* its id is in the queue
C35_Witness ==
    \E id \in tasks :
        /\ hist[id].runs > 0
        /\ objs[id].status = "queued"
        /\ id \in Range(taskQueue)

\* C36: the queue holds no id twice, and every id in it is the id of a job of the
\* table whose status is 'queued'
C36_QueueHoldsQueuedJobsOnce ==
    /\ \A i, j \in 1 .. Len(taskQueue) : taskQueue[i] = taskQueue[j] => i = j
    /\ \A id \in Range(taskQueue) : id \in tasks /\ objs[id].status = "queued"

\* C37: of every job at most one executeTask invocation is in flight (in its
\* progress loop or in its retry delay)
C37_OneAttemptInFlight ==
    \A id \in DOMAIN objs : InvocationsOf(invocations, id) <= 1

\* C38: no step makes a job 'running' while one of its dependencies is absent from
\* the job table, and an id that clearCompleted took out of the table never comes
\* back into it, so that a dependent of a purged job that has not started never does
C38_AbsentDependencyBlocks ==
    /\ [][\A id \in DOMAIN objs :
              (objs[id].status # "running" /\ objs'[id].status = "running")
                  => objs[id].dependencies \subseteq tasks]_vars
    /\ [][\A id \in DOMAIN objs : id \notin tasks => id \notin tasks']_vars

\* with the scheduler started and every slot free, a job that never ran is still
\* 'queued' in the queue: one of its dependencies completed and was purged
C38_Witness ==
    /\ isRunning /\ loops > 0
    /\ runningTasks = {}
    /\ \E id \in tasks :
           /\ hist[id].runs = 0
           /\ objs[id].status = "queued"
           /\ id \in Range(taskQueue)
           /\ \E depId \in objs[id].dependencies :
                  /\ depId \in DOMAIN objs \ tasks
                  /\ depId # id
                  /\ objs[depId].status = "completed"

====
